---------------------------- MODULE Spec2Model ----------------------------
(***************************************************************************)
(* SteamCharts year-scoped scrape / cache / parse / classify pipeline of   *)
(* src/modules/get_data.py: load_input_csv, get_game_page_html,            *)
(* parse_year_data_from_html, collect_one_year and collect_year_range.     *)
(*                                                                         *)
(* Encoding of Python values:                                              *)
(*   - an optional value is a sequence of length 0 (None / absent file)    *)
(*     or 1 (the value);                                                   *)
(*   - a month string "YYYY-MM" is the pair <<YYYY, MM>>, whose            *)
(*     lexicographic order is the order of the zero-padded strings, and    *)
(*     the absent month is <<>>;                                           *)
(*   - the text of a table cell is the sequence of its blank-separated     *)
(*     words (get_text(" ", strip=True)); numeric text is a sequence of    *)
(*     one-character strings;                                              *)
(*   - a DataFrame is a record of its column names and its rows.           *)
(***************************************************************************)
EXTENDS Integers, Sequences, FiniteSets, TLC

(***************************************************************************)
(* Bounds of the model.                                                    *)
(***************************************************************************)
\* number of years of the inclusive range start_year..end_year
NumYears == 2
\* number of collect_year_range invocations in one behaviour (SpecRerun)
MaxRuns == 2

start_year == 2021
end_year == start_year + NumYears - 1
Years == start_year..end_year

None == <<>>
Some(x) == <<x>>

\* the element of a one-element set.  The({F(v) : v \in {e}}) is F of the
\* value of e, with e evaluated once: a local variable assigned once
The(S) == CHOOSE r \in S : TRUE

(***************************************************************************)
(* Sequence helpers.                                                       *)
(***************************************************************************)
RECURSIVE SeqFilter(_, _)
\* the subsequence of s whose elements are in the set keep
SeqFilter(s, keep) ==
    IF s = <<>> THEN <<>>
    ELSE IF Head(s) \in keep THEN <<Head(s)>> \o SeqFilter(Tail(s), keep)
    ELSE SeqFilter(Tail(s), keep)

RECURSIVE Concat(_)
\* the concatenation of a sequence of sequences
Concat(ss) == IF ss = <<>> THEN <<>> ELSE Head(ss) \o Concat(Tail(ss))

Range(s) == {s[i] : i \in 1..Len(s)}

(***************************************************************************)
(* clean_num: numeric text -> optional number.                             *)
(* The inputs are digit strings with thousands separators, blanks and the  *)
(* dash placeholders ("EMDASH" stands for the one character U+2014);       *)
(* float() of anything else is a ValueError -> None.                       *)
(***************************************************************************)
Digits == {"0", "1", "2", "3", "4", "5", "6", "7", "8", "9"}

DigitVal(c) ==
    CASE c = "0" -> 0 [] c = "1" -> 1 [] c = "2" -> 2 [] c = "3" -> 3
      [] c = "4" -> 4 [] c = "5" -> 5 [] c = "6" -> 6 [] c = "7" -> 7
      [] c = "8" -> 8 [] c = "9" -> 9

RECURSIVE DigitsVal(_)
DigitsVal(cs) ==
    IF cs = <<>> THEN 0
    ELSE 10 * DigitsVal(SubSeq(cs, 1, Len(cs) - 1)) + DigitVal(cs[Len(cs)])

RECURSIVE StripLeft(_)
StripLeft(cs) ==
    IF cs # <<>> /\ Head(cs) = " " THEN StripLeft(Tail(cs)) ELSE cs

RECURSIVE StripRight(_)
StripRight(cs) ==
    IF cs # <<>> /\ cs[Len(cs)] = " "
    THEN StripRight(SubSeq(cs, 1, Len(cs) - 1)) ELSE cs

\* str.strip()
Strip(cs) == StripRight(StripLeft(cs))

\* str.replace(",", "")
RemoveCommas(cs) ==
    LET RECURSIVE rm(_)
        rm(s) == IF s = <<>> THEN <<>>
                 ELSE IF Head(s) = "," THEN rm(Tail(s))
                 ELSE <<Head(s)>> \o rm(Tail(s))
    IN rm(cs)

clean_num(value) ==
    IF value = None THEN None
    ELSE LET text == RemoveCommas(Strip(value[1]))
         IN IF text \in {<<>>, <<"-">>, <<"EMDASH">>} THEN None
            ELSE IF \A i \in 1..Len(text) : text[i] \in Digits
                 THEN Some(DigitsVal(text))
                 ELSE None

(***************************************************************************)
(* Stable sort of a sequence of <<key, item>> pairs by key, the keys being *)
(* integer tuples of one length compared lexicographically (list.sort and  *)
(* the multi-column DataFrame.sort_values are stable).                     *)
(***************************************************************************)
LexLess(a, b) ==
    \E i \in 1..Len(a) : a[i] < b[i] /\ \A j \in 1..(i - 1) : a[j] = b[j]

\* the place of the i-th pair in the sorted sequence: behind the pairs of
\* smaller key and the earlier pairs of equal key
SortedPlace(ps, i) ==
    1 + Cardinality({j \in 1..Len(ps) :
            \/ LexLess(ps[j][1], ps[i][1])
            \/ (j < i /\ ~LexLess(ps[i][1], ps[j][1]))})

SortPairs(ps) ==
    The({[k \in 1..Len(v) |->
            v[CHOOSE i \in 1..Len(v) : SortedPlace(v, i) = k]] : v \in {ps}})

Items(ps) == [i \in 1..Len(ps) |-> ps[i][2]]

(***************************************************************************)
(* build_game_url and cache_key_for_url.  A URL is the template with the   *)
(* appid in it; the md5 hex digest is kept as the pair of a tag and the    *)
(* URL it digests: equal URLs give equal keys and, as for md5 on the few   *)
(* URLs of a run, distinct URLs give distinct keys.                        *)
(***************************************************************************)
BASE_URL == "https://steamcharts.com/app/"

build_game_url(appid) == <<BASE_URL, appid>>

cache_key_for_url(url) == <<"md5", url>>

(***************************************************************************)
(* load_input_csv.  A roster file is its header (columns) and its rows,    *)
(* each row a function from the header's names to cell text (a sequence    *)
(* of characters).                                                         *)
(***************************************************************************)
required == {"rank", "name", "appid"}

\* pd.to_numeric(..., errors="raise").astype(int) succeeds on this text
IsNumeric(cs) == cs # <<>> /\ \A i \in 1..Len(cs) : cs[i] \in Digits

\* the columns of `required` that the file lacks
missing(file) == required \ Range(file.columns)

\* load_input_csv raises ValueError (lines 216-220, 226, 227)
load_input_csv_raises(file) ==
    IF missing(file) # {} THEN TRUE
    ELSE \E i \in 1..Len(file.rows) :
            ~(IsNumeric(file.rows[i]["rank"]) /\ IsNumeric(file.rows[i]["appid"]))

RECURSIVE drop_duplicates(_, _)
\* keep the first row of every (rank, appid) pair; seen: the pairs so far
drop_duplicates(rows, seen) ==
    IF rows = <<>> THEN <<>>
    ELSE LET k == <<Head(rows).rank, Head(rows).appid>>
         IN IF k \in seen THEN drop_duplicates(Tail(rows), seen)
            ELSE <<Head(rows)>> \o drop_duplicates(Tail(rows), seen \cup {k})

\* lines 223-230: the three columns, typed, the names stripped
typed_rows(file) ==
    [i \in 1..Len(file.rows) |->
        [rank  |-> DigitsVal(file.rows[i]["rank"]),
         name  |-> Strip(file.rows[i]["name"]),
         appid |-> DigitsVal(file.rows[i]["appid"])]]

\* line 233: df[df["name"] != ""]
nonempty_names(typed) ==
    SeqFilter(typed, {r \in Range(typed) : r.name # <<>>})

\* line 240: df.sort_values("rank")
sort_by_rank(df) ==
    Items(SortPairs([i \in 1..Len(df) |-> <<<<df[i].rank>>, df[i]>>]))

\* the cleaned roster of a file on which load_input_csv does not raise
load_input_csv(file) ==
    The({sort_by_rank(dedup) :
            dedup \in {drop_duplicates(named, {}) :
                named \in {nonempty_names(typed) :
                    typed \in {typed_rows(file)}}}})

(***************************************************************************)
(* parse_year_data_from_html.  A page is the sequence of the rows of       *)
(* table.common-table tbody, each row the sequence of the texts of its td  *)
(* cells, and the flag `deep`: markup nested so deeply that BeautifulSoup  *)
(* raises (RecursionError), the one way the parser fails.                  *)
(***************************************************************************)
\* str.lower() on the words pages hold
LowerWord(w) ==
    CASE w \in {"Last", "LAST", "last"} -> "last"
      [] w \in {"Days", "DAYS", "days"} -> "days"
      [] w \in {"January", "JANUARY", "january"} -> "january"
      [] w \in {"March", "MARCH", "march"} -> "march"
      [] w \in {"December", "DECEMBER", "december"} -> "december"
      [] OTHER -> w

Lower(text) == [i \in 1..Len(text) |-> LowerWord(text[i])]

\* %B: the full month name, matched without regard to case; 0: no month
MonthNumber(w) ==
    CASE LowerWord(w) = "january" -> 1
      [] LowerWord(w) = "march" -> 3
      [] LowerWord(w) = "december" -> 12
      [] OTHER -> 0

\* the decimal text of the years pages mention
YearWord(y) ==
    CASE y = 2019 -> "2019" [] y = 2020 -> "2020" [] y = 2021 -> "2021"
      [] y = 2022 -> "2022" [] y = 2023 -> "2023" [] y = 2024 -> "2024"
      [] y = 2025 -> "2025" [] y = 2026 -> "2026"

\* %Y: a four-digit year; 0: not one
YearNumber(w) ==
    IF \E y \in 2019..2026 : YearWord(y) = w
    THEN CHOOSE y \in 2019..2026 : YearWord(y) = w
    ELSE 0

\* pd.to_datetime(month_text, format="%B %Y", errors="coerce"): <<year,
\* month>>, or None for NaT
to_datetime(month_text) ==
    IF /\ Len(month_text) = 2
       /\ MonthNumber(month_text[1]) # 0
       /\ YearNumber(month_text[2]) # 0
    THEN Some(<<YearNumber(month_text[2]), MonthNumber(month_text[1])>>)
    ELSE None

\* parse_row without the year filter of lines 342, 343
parse_row_any_year(tds, target_year) ==
    IF Len(tds) < 5 THEN None
    ELSE IF Lower(tds[1]) = <<"last", "30", "days">> THEN None
    ELSE LET month_dt == to_datetime(tds[1])
         IN IF month_dt = None THEN None
            ELSE Some([month        |-> month_dt[1],
                       avg_players  |-> clean_num(Some(tds[2])),
                       peak_players |-> clean_num(Some(tds[5]))])

\* the record of one table row, or None when the loop skips the row
parse_row(tds, target_year) ==
    IF Len(tds) < 5 THEN None
    ELSE IF Lower(tds[1]) = <<"last", "30", "days">> THEN None
    ELSE LET month_dt == to_datetime(tds[1])
         IN IF month_dt = None THEN None
            ELSE IF month_dt[1][1] # target_year THEN None
            ELSE Some([month        |-> month_dt[1],
                       avg_players  |-> clean_num(Some(tds[2])),
                       peak_players |-> clean_num(Some(tds[5]))])

parse_raises(html) == html.deep

\* lines 316-354: parsed_rows when the loop ends
parsed_rows_of(html, target_year) ==
    Concat([i \in 1..Len(html.rows) |-> parse_row(html.rows[i], target_year)])

\* line 357: parsed_rows.sort(key=lambda r: r["month"])
sort_by_month(parsed_rows) ==
    Items(SortPairs([i \in 1..Len(parsed_rows) |->
                        <<parsed_rows[i].month, parsed_rows[i]>>]))

parse_year_data_from_html(html, target_year) ==
    The({sort_by_month(parsed_rows) :
            parsed_rows \in {parsed_rows_of(html, target_year)}})

(***************************************************************************)
(* get_game_page_html.  cache_files is the cache directory: a function     *)
(* from the keys that have a file to the file's text.  resp is what the    *)
(* session answers if it is asked: kind "network_error" (session.get       *)
(* raises), "http_error" (raise_for_status raises) or "ok" with the page   *)
(* in text.  The result holds the returned html (None when the call        *)
(* raised), the cache directory afterwards and the trace of the call's     *)
(* effects in program order.                                               *)
(***************************************************************************)
write_text(cache_files, key, html) ==
    [k \in (DOMAIN cache_files) \cup {key} |->
        IF k = key THEN html ELSE cache_files[k]]

\* get_game_page_html that asks the network without looking at the cache
get_game_page_html_ignore_cache(appid, cache_files, uc, resp) ==
    LET cache_file == cache_key_for_url(build_game_url(appid))
    IN IF resp.kind = "network_error"
       THEN [html |-> None, cache |-> cache_files,
             trace |-> <<"get", "raise">>]
       ELSE IF resp.kind = "http_error"
       THEN [html |-> None, cache |-> cache_files,
             trace |-> <<"get", "raise_for_status", "raise">>]
       ELSE [html  |-> Some(resp.text),
             cache |-> write_text(cache_files, cache_file, resp.text),
             trace |-> <<"get", "raise_for_status", "write_text", "sleep">>]

\* get_game_page_html that does not save what it fetched
get_game_page_html_no_write(appid, cache_files, uc, resp) ==
    LET cache_file == cache_key_for_url(build_game_url(appid))
    IN IF cache_file \in DOMAIN cache_files /\ uc
       THEN [html |-> Some(cache_files[cache_file]), cache |-> cache_files,
             trace |-> <<"read_text">>]
       ELSE IF resp.kind = "network_error"
       THEN [html |-> None, cache |-> cache_files,
             trace |-> <<"get", "raise">>]
       ELSE IF resp.kind = "http_error"
       THEN [html |-> None, cache |-> cache_files,
             trace |-> <<"get", "raise_for_status", "raise">>]
       ELSE [html  |-> Some(resp.text), cache |-> cache_files,
             trace |-> <<"get", "raise_for_status", "sleep">>]

\* get_game_page_html that sleeps before it looks at the cache
get_game_page_html_sleep_first(appid, cache_files, uc, resp) ==
    LET cache_file == cache_key_for_url(build_game_url(appid))
    IN IF cache_file \in DOMAIN cache_files /\ uc
       THEN [html |-> Some(cache_files[cache_file]), cache |-> cache_files,
             trace |-> <<"sleep", "read_text">>]
       ELSE IF resp.kind = "network_error"
       THEN [html |-> None, cache |-> cache_files,
             trace |-> <<"sleep", "get", "raise">>]
       ELSE IF resp.kind = "http_error"
       THEN [html |-> None, cache |-> cache_files,
             trace |-> <<"sleep", "get", "raise_for_status", "raise">>]
       ELSE [html  |-> Some(resp.text),
             cache |-> write_text(cache_files, cache_file, resp.text),
             trace |-> <<"sleep", "get", "raise_for_status", "write_text">>]

\* get_game_page_html that saves the fetched page only when the key has
\* no file yet
get_game_page_html_keep_existing(appid, cache_files, uc, resp) ==
    LET cache_file == cache_key_for_url(build_game_url(appid))
    IN IF cache_file \in DOMAIN cache_files /\ uc
       THEN [html |-> Some(cache_files[cache_file]), cache |-> cache_files,
             trace |-> <<"read_text">>]
       ELSE IF resp.kind = "network_error"
       THEN [html |-> None, cache |-> cache_files,
             trace |-> <<"get", "raise">>]
       ELSE IF resp.kind = "http_error"
       THEN [html |-> None, cache |-> cache_files,
             trace |-> <<"get", "raise_for_status", "raise">>]
       ELSE IF cache_file \in DOMAIN cache_files
       THEN [html  |-> Some(resp.text), cache |-> cache_files,
             trace |-> <<"get", "raise_for_status", "sleep">>]
       ELSE [html  |-> Some(resp.text),
             cache |-> write_text(cache_files, cache_file, resp.text),
             trace |-> <<"get", "raise_for_status", "write_text", "sleep">>]

\* get_game_page_html that saves the body of the response before it looks
\* at its status
get_game_page_html_write_before_status(appid, cache_files, uc, resp) ==
    LET cache_file == cache_key_for_url(build_game_url(appid))
    IN IF cache_file \in DOMAIN cache_files /\ uc
       THEN [html |-> Some(cache_files[cache_file]), cache |-> cache_files,
             trace |-> <<"read_text">>]
       ELSE IF resp.kind = "network_error"
       THEN [html |-> None, cache |-> cache_files,
             trace |-> <<"get", "raise">>]
       ELSE IF resp.kind = "http_error"
       THEN [html  |-> None,
             cache |-> write_text(cache_files, cache_file, resp.text),
             trace |-> <<"get", "write_text", "raise_for_status", "raise">>]
       ELSE [html  |-> Some(resp.text),
             cache |-> write_text(cache_files, cache_file, resp.text),
             trace |-> <<"get", "write_text", "raise_for_status", "sleep">>]

get_game_page_html(appid, cache_files, uc, resp) ==
    LET url == build_game_url(appid)
        cache_file == cache_key_for_url(url)
    IN IF cache_file \in DOMAIN cache_files /\ uc
       THEN [html  |-> Some(cache_files[cache_file]),
             cache |-> cache_files,
             trace |-> <<"read_text">>]
       ELSE IF resp.kind = "network_error"
       THEN [html  |-> None,
             cache |-> cache_files,
             trace |-> <<"get", "raise">>]
       ELSE IF resp.kind = "http_error"
       THEN [html  |-> None,
             cache |-> cache_files,
             trace |-> <<"get", "raise_for_status", "raise">>]
       ELSE [html  |-> Some(resp.text),
             cache |-> write_text(cache_files, cache_file, resp.text),
             trace |-> <<"get", "raise_for_status", "write_text", "sleep">>]

(***************************************************************************)
(* The body of collect_one_year's loop for one roster entry, after the     *)
(* fetch: the rows it appends to out_rows.  fetched is the html that       *)
(* get_game_page_html returned, None when it raised.                       *)
(***************************************************************************)
Schema ==
    <<"year", "rank", "name", "appid", "month", "avg_players",
      "peak_players", "status">>

sentinel(yr, row, status) ==
    [year |-> yr, rank |-> row.rank, name |-> row.name, appid |-> row.appid,
     month |-> None, avg_players |-> None, peak_players |-> None,
     status |-> status]

\* lines 464-474: the rows of a game that has months in the year
ok_rows(yr, row, parsed_rows) ==
    [i \in 1..Len(parsed_rows) |->
        [year |-> yr, rank |-> row.rank, name |-> row.name,
         appid |-> row.appid,
         month |-> parsed_rows[i].month,
         avg_players |-> parsed_rows[i].avg_players,
         peak_players |-> parsed_rows[i].peak_players,
         status |-> "ok"]]

\* game_rows without the no_data_for_year branch of lines 449-461
game_rows_no_empty_branch(yr, row, fetched) ==
    IF fetched = None THEN <<sentinel(yr, row, "request_error")>>
    ELSE IF parse_raises(fetched[1]) THEN <<sentinel(yr, row, "parse_error")>>
    ELSE The({ok_rows(yr, row, parsed_rows) :
                 parsed_rows \in {parse_year_data_from_html(fetched[1], yr)}})

game_rows(yr, row, fetched) ==
    IF fetched = None THEN <<sentinel(yr, row, "request_error")>>
    ELSE IF parse_raises(fetched[1]) THEN <<sentinel(yr, row, "parse_error")>>
    ELSE The({IF parsed_rows = <<>>
              THEN <<sentinel(yr, row, "no_data_for_year")>>
              ELSE ok_rows(yr, row, parsed_rows) :
                 parsed_rows \in {parse_year_data_from_html(fetched[1], yr)}})

\* sort_values(by=["rank", "month"], na_position="last")
sort_key(r) ==
    IF r.month = None THEN <<r.rank, 1, 0, 0>>
    ELSE <<r.rank, 0, r.month[1], r.month[2]>>

\* result_df without the sort_values of lines 492-495
result_df_no_sort(rows) ==
    [columns |-> Schema, rows |-> rows]

result_df(rows) ==
    [columns |-> Schema,
     rows    |-> Items(SortPairs([i \in 1..Len(rows) |->
                                    <<sort_key(rows[i]), rows[i]>>]))]

\* pd.DataFrame(columns=[...]) of line 559
empty_df == [columns |-> Schema, rows |-> <<>>]

\* pd.concat(all_parts, ignore_index=True) of a non-empty list of frames
\* that have the same columns
concat_df(parts) ==
    [columns |-> parts[1].columns,
     rows    |-> Concat([i \in 1..Len(parts) |-> parts[i].rows])]

(***************************************************************************)
(* The inputs: the pages the site serves and the roster files.             *)
(***************************************************************************)
\* a monthly row: Month | Avg. Players | Gain | Gain % | Peak Players
MonthRow(month_text, avg, peak) ==
    <<month_text, avg, <<"+", "5">>, <<"4", "%">>, peak>>

PageData ==
    [deep |-> FALSE,
     rows |-> << MonthRow(<<"Last", "30", "Days">>, <<"7">>, <<"9">>),
                 MonthRow(<<"March", YearWord(start_year)>>,
                          <<"1", ",", "2", "0", "0">>, <<"3", "0", "0", "0">>),
                 MonthRow(<<"January", YearWord(start_year)>>,
                          <<"-">>, <<" ", "9", "0", "0">>),
                 MonthRow(<<"december", YearWord(start_year + 1)>>,
                          <<"4", "5">>, <<"x">>),
                 MonthRow(<<"December", YearWord(start_year - 1)>>,
                          <<"1">>, <<"2">>),
                 MonthRow(<<"Smarch", YearWord(start_year)>>, <<"1">>, <<"2">>),
                 << <<"March", YearWord(start_year)>>, <<"1">>, <<"2">> >>,
                 << >> >>]

PageNoData ==
    [deep |-> FALSE,
     rows |-> << MonthRow(<<"LAST", "30", "DAYS">>, <<"7">>, <<"9">>),
                 MonthRow(<<"March", YearWord(start_year - 1)>>,
                          <<"5">>, <<"6">>) >>]

PageDeep == [deep |-> TRUE, rows |-> <<>>]

Pages == {PageData, PageNoData, PageDeep}

Responses ==
    {[kind |-> "network_error", text |-> PageDeep],
     [kind |-> "http_error", text |-> PageDeep]}
      \cup {[kind |-> "ok", text |-> p] : p \in Pages}

RosterRow(rank, name, appid) ==
    [c \in {"rank", "name", "appid", "rating"} |->
        CASE c = "rank" -> rank [] c = "name" -> name
          [] c = "appid" -> appid [] c = "rating" -> <<"9", "0">>]

\* two games, out of rank order, with a duplicate, a blank name and a
\* column the loader ignores
FileTwoGames ==
    [columns |-> <<"rank", "appid", "name", "rating">>,
     rows |-> << RosterRow(<<"2">>, <<"B", " ">>, <<"2", "0">>),
                 RosterRow(<<"1">>, <<"A">>, <<"1", "0">>),
                 RosterRow(<<"2">>, <<"B">>, <<"2", "0">>),
                 RosterRow(<<"3">>, <<" ">>, <<"3", "0">>) >>]

FileOneGame ==
    [columns |-> <<"rank", "appid", "name", "rating">>,
     rows |-> << RosterRow(<<"1">>, <<"A">>, <<"1", "0">>) >>]

\* the appid column is missing
FileNoAppid ==
    [columns |-> <<"rank", "name">>,
     rows |-> << [c \in {"rank", "name"} |->
                    IF c = "rank" THEN <<"1">> ELSE <<"A">>] >>]

\* a rank that is not a number
FileBadRank ==
    [columns |-> <<"rank", "appid", "name", "rating">>,
     rows |-> << RosterRow(<<"1">>, <<"A">>, <<"1", "0">>),
                 RosterRow(<<"x">>, <<"B">>, <<"2", "0">>) >>]

RosterFiles == {FileTwoGames, FileOneGame, FileNoAppid, FileBadRank}

\* two games that share a rank (drop_duplicates keeps both: the appids
\* differ), so that their rows meet in the final sort
FileSameRank ==
    [columns |-> <<"rank", "appid", "name", "rating">>,
     rows |-> << RosterRow(<<"1">>, <<"A">>, <<"1", "0">>),
                 RosterRow(<<"1">>, <<"B">>, <<"2", "0">>) >>]

OrderFiles == {FileTwoGames, FileSameRank, FileBadRank}

(***************************************************************************)
(* The state: one collect_year_range call at a time.                       *)
(***************************************************************************)
VARIABLES
    files,          \* input_dir: year -> optional roster file
    use_cache,      \* the use_cache argument
    write_combined, \* the write_combined argument
    cache,          \* cache_dir: cache key -> text of its file
    out_files,      \* output_dir: year -> optional per-year DataFrame
    combined_file,  \* output_dir: the optional combined DataFrame
    pc,             \* "loop", "games", "done" (returned), "raised"
    year,           \* the year of collect_year_range's loop
    games_df,       \* collect_one_year: the loaded roster
    idx,            \* collect_one_year: roster entries done
    out_rows,       \* collect_one_year: out_rows
    all_parts,      \* collect_year_range: all_parts
    ret,            \* the optional DataFrame collect_year_range returned
    error,          \* the function that raised, "" when none did
    call_log,       \* every get_game_page_html call so far, in order
    run,            \* the number of the current collect_year_range call
    prev            \* what the previous call left: its ret and out_files

vars ==
    <<files, use_cache, write_combined, cache, out_files, combined_file, pc,
      year, games_df, idx, out_rows, all_parts, ret, error, call_log, run,
      prev>>

inputs == <<files, use_cache, write_combined>>

Init ==
    /\ files \in [Years -> {None} \cup {Some(f) : f \in RosterFiles}]
    /\ use_cache \in BOOLEAN
    /\ write_combined \in BOOLEAN
    /\ cache = <<>>
    /\ out_files = [y \in Years |-> None]
    /\ combined_file = None
    /\ pc = "loop"
    /\ year = start_year
    /\ games_df = <<>>
    /\ idx = 0
    /\ out_rows = <<>>
    /\ all_parts = <<>>
    /\ ret = None
    /\ error = ""
    /\ call_log = <<>>
    /\ run = 1
    /\ prev = None

\* SkipYear with `break` for `continue`: a missing file ends the loop
SkipYear_break ==
    /\ pc = "loop"
    /\ year <= end_year
    /\ files[year] = None
    /\ year' = end_year + 1
    /\ UNCHANGED <<inputs, cache, out_files, combined_file, pc, games_df,
                   idx, out_rows, all_parts, ret, error, call_log, run, prev>>

\* lines 535-537: the year's roster file is missing
SkipYear ==
    /\ pc = "loop"
    /\ year <= end_year
    /\ files[year] = None
    /\ year' = year + 1
    /\ UNCHANGED <<inputs, cache, out_files, combined_file, pc, games_df,
                   idx, out_rows, all_parts, ret, error, call_log, run, prev>>

\* LoadRosterFails with the error caught and the year skipped
LoadRosterFails_skip ==
    /\ pc = "loop"
    /\ year <= end_year
    /\ files[year] # None
    /\ load_input_csv_raises(files[year][1])
    /\ year' = year + 1
    /\ UNCHANGED <<inputs, cache, out_files, combined_file, pc, games_df,
                   idx, out_rows, all_parts, ret, error, call_log, run, prev>>

\* LoadRosterFails with the columns checked only after the page of the
\* file's first row has been requested
LoadRosterFails_after_request ==
    /\ pc = "loop"
    /\ year <= end_year
    /\ files[year] # None
    /\ load_input_csv_raises(files[year][1])
    /\ \E resp \in Responses :
          \E r \in {get_game_page_html(0, cache, use_cache, resp)} :
             /\ cache' = r.cache
             /\ call_log' = Append(call_log,
                                [run |-> run, year |-> year, rank |-> 0,
                                 appid |-> 0, trace |-> r.trace,
                                 html |-> r.html])
    /\ pc' = "raised"
    /\ error' = "load_input_csv"
    /\ UNCHANGED <<inputs, out_files, combined_file, year, games_df,
                   idx, out_rows, all_parts, ret, run, prev>>

\* lines 539, 395: load_input_csv raises and nothing catches it
LoadRosterFails ==
    /\ pc = "loop"
    /\ year <= end_year
    /\ files[year] # None
    /\ load_input_csv_raises(files[year][1])
    /\ pc' = "raised"
    /\ error' = "load_input_csv"
    /\ UNCHANGED <<inputs, cache, out_files, combined_file, year, games_df,
                   idx, out_rows, all_parts, ret, call_log, run, prev>>

\* lines 539, 395-399: collect_one_year starts on a valid roster
LoadRoster ==
    /\ pc = "loop"
    /\ year <= end_year
    /\ files[year] # None
    /\ ~load_input_csv_raises(files[year][1])
    /\ games_df' = load_input_csv(files[year][1])
    /\ out_rows' = <<>>
    /\ idx' = 0
    /\ pc' = "games"
    /\ UNCHANGED <<inputs, cache, out_files, combined_file, year, all_parts,
                   ret, error, call_log, run, prev>>

\* CollectGame without the try/except around the fetch (lines 409, 417)
CollectGame_fetch_uncaught ==
    /\ pc = "games"
    /\ idx < Len(games_df)
    /\ \E resp \in Responses :
          \E row \in {games_df[idx + 1]} :
          \E r \in {get_game_page_html(row.appid, cache, use_cache, resp)} :
             /\ cache' = r.cache
             /\ call_log' = Append(call_log,
                                [run |-> run, year |-> year,
                                 rank |-> row.rank, appid |-> row.appid,
                                 trace |-> r.trace, html |-> r.html])
             /\ IF r.html = None
                THEN /\ pc' = "raised"
                     /\ error' = "get_game_page_html"
                     /\ UNCHANGED <<out_rows, idx>>
                ELSE /\ out_rows' = out_rows \o game_rows(year, row, r.html)
                     /\ idx' = idx + 1
                     /\ UNCHANGED <<pc, error>>
    /\ UNCHANGED <<inputs, out_files, combined_file, year, games_df,
                   all_parts, ret, run, prev>>

\* lines 403-476: one iteration of the loop over games_df
CollectGame ==
    /\ pc = "games"
    /\ idx < Len(games_df)
    /\ \E resp \in Responses :
          \E row \in {games_df[idx + 1]} :
          \E r \in {get_game_page_html(row.appid, cache, use_cache, resp)} :
             /\ cache' = r.cache
             /\ out_rows' = out_rows \o game_rows(year, row, r.html)
             /\ call_log' = Append(call_log,
                                [run |-> run, year |-> year,
                                 rank |-> row.rank, appid |-> row.appid,
                                 trace |-> r.trace, html |-> r.html])
    /\ idx' = idx + 1
    /\ UNCHANGED <<inputs, out_files, combined_file, pc, year, games_df,
                   all_parts, ret, error, run, prev>>

\* WriteYear that keeps the frame in memory and leaves the writing for later
WriteYear_not_written ==
    /\ pc = "games"
    /\ idx = Len(games_df)
    /\ all_parts' = Append(all_parts, result_df(out_rows))
    /\ year' = year + 1
    /\ pc' = "loop"
    /\ UNCHANGED <<inputs, cache, out_files, combined_file, games_df, idx,
                   out_rows, ret, error, call_log, run, prev>>

\* lines 478-497, 547-555: the year's frame is sorted, written and kept
WriteYear ==
    /\ pc = "games"
    /\ idx = Len(games_df)
    /\ \E year_df \in {result_df(out_rows)} :
          /\ out_files' = [out_files EXCEPT ![year] = Some(year_df)]
          /\ all_parts' = Append(all_parts, year_df)
    /\ year' = year + 1
    /\ pc' = "loop"
    /\ UNCHANGED <<inputs, cache, combined_file, games_df, idx, out_rows,
                   ret, error, call_log, run, prev>>

\* Finish without the guard of lines 558-562: pd.concat([]) raises
Finish_no_guard ==
    /\ pc = "loop"
    /\ year > end_year
    /\ IF all_parts = <<>>
       THEN /\ pc' = "raised"
            /\ error' = "concat"
            /\ UNCHANGED <<ret, combined_file>>
       ELSE /\ ret' = Some(concat_df(all_parts))
            /\ combined_file' = IF write_combined
                                THEN Some(concat_df(all_parts))
                                ELSE combined_file
            /\ pc' = "done"
            /\ UNCHANGED error
    /\ UNCHANGED <<inputs, cache, out_files, year, games_df, idx, out_rows,
                   all_parts, call_log, run, prev>>

\* lines 557-571: after the loop
Finish ==
    /\ pc = "loop"
    /\ year > end_year
    /\ IF all_parts = <<>>
       THEN /\ ret' = Some(empty_df)
            /\ UNCHANGED combined_file
       ELSE /\ ret' = Some(concat_df(all_parts))
            /\ combined_file' = IF write_combined
                                THEN Some(concat_df(all_parts))
                                ELSE combined_file
    /\ pc' = "done"
    /\ UNCHANGED <<inputs, cache, out_files, year, games_df, idx, out_rows,
                   all_parts, error, call_log, run, prev>>

\* collect_year_range is called again with the same arguments on the same
\* directories
Rerun ==
    /\ pc \in {"done", "raised"}
    /\ run < MaxRuns
    /\ run' = run + 1
    /\ prev' = Some([ret |-> ret, out_files |-> out_files,
                     combined_file |-> combined_file, error |-> error])
    /\ pc' = "loop"
    /\ year' = start_year
    /\ games_df' = <<>>
    /\ idx' = 0
    /\ out_rows' = <<>>
    /\ all_parts' = <<>>
    /\ ret' = None
    /\ error' = ""
    /\ UNCHANGED <<inputs, cache, out_files, combined_file, call_log>>

Next ==
    \/ SkipYear
    \/ LoadRosterFails
    \/ LoadRoster
    \/ CollectGame
    \/ WriteYear
    \/ Finish

\* one collect_year_range call on empty cache and output directories
Spec == Init /\ [][Next]_vars

\* the same, with the calls running to their end
FairSpec == Spec /\ WF_vars(Next)

\* repeated calls with use_cache=True
InitRerun == Init /\ use_cache

NextRerun == Next \/ Rerun

SpecRerun == InitRerun /\ [][NextRerun]_vars

\* one call on rosters that include games of equal rank
InitOrder ==
    /\ files \in [Years -> {None} \cup {Some(f) : f \in OrderFiles}]
    /\ use_cache \in BOOLEAN
    /\ write_combined \in BOOLEAN
    /\ cache = <<>>
    /\ out_files = [y \in Years |-> None]
    /\ combined_file = None
    /\ pc = "loop"
    /\ year = start_year
    /\ games_df = <<>>
    /\ idx = 0
    /\ out_rows = <<>>
    /\ all_parts = <<>>
    /\ ret = None
    /\ error = ""
    /\ call_log = <<>>
    /\ run = 1
    /\ prev = None

SpecOrder == InitOrder /\ [][Next]_vars

(***************************************************************************)
(* Vocabulary of the properties.                                           *)
(***************************************************************************)
RECURSIVE Sum(_)
Sum(ns) == IF ns = <<>> THEN 0 ELSE Head(ns) + Sum(Tail(ns))

\* the get_game_page_html calls of this collect_year_range call for year y
CallsOf(y) ==
    SeqFilter(call_log, {c \in Range(call_log) : c.run = run /\ c.year = y})

\* the rows of a frame that belong to a roster entry
EntryRows(rows, e) ==
    SeqFilter(rows, {r \in Range(rows) : r.rank = e.rank /\ r.appid = e.appid})

\* a table row counts for year y: at least 5 cells, not the rolling
\* window, a month cell "<month name> <4-digit year>" of that year
Qualifies(tds, y) ==
    /\ Len(tds) >= 5
    /\ Lower(tds[1]) # <<"last", "30", "days">>
    /\ to_datetime(tds[1]) # None
    /\ to_datetime(tds[1])[1][1] = y

QualifyingCount(html, y) ==
    Cardinality({i \in 1..Len(html.rows) : Qualifies(html.rows[i], y)})

\* the call got a page and the page parses
FetchedAndParsed(c) == c.html # None /\ ~c.html[1].deep

Terminated == pc \in {"done", "raised"}

(***************************************************************************)
(* C1: every roster entry loaded for a year gets either one "ok" row with  *)
(* a month per qualifying month of its page, or exactly one sentinel row   *)
(* (no month, no numbers, status no_data_for_year, request_error or        *)
(* parse_error); no entry is left without a row, and the "ok" rows number  *)
(* the sum of the qualifying-month counts of the entries fetched and       *)
(* parsed.  Stated of the frame collect_one_year has just returned for a    *)
(* year (the per-year file holds it), where \E x \in {e} names the value    *)
(* of e.                                                                   *)
(***************************************************************************)
C1_RowsPerEntry ==
    \A y \in Years :
      (out_files[y] # None /\ pc = "loop" /\ year = y + 1) =>
        \E roster \in {load_input_csv(files[y][1])} :
        \E calls \in {CallsOf(y)} :
        \E rows \in {out_files[y][1].rows} :
           /\ Len(calls) = Len(roster)
           /\ \E count \in {[i \in 1..Len(calls) |->
                               IF FetchedAndParsed(calls[i])
                               THEN QualifyingCount(calls[i].html[1], y)
                               ELSE 0]} :
                /\ \A i \in 1..Len(roster) :
                     \E rs \in {EntryRows(rows, roster[i])} :
                        /\ Len(rs) >= 1
                        /\ IF count[i] > 0
                           THEN /\ Len(rs) = count[i]
                                /\ \A k \in 1..Len(rs) :
                                     rs[k].status = "ok" /\ rs[k].month # None
                           ELSE /\ Len(rs) = 1
                                /\ rs[1].month = None
                                /\ rs[1].avg_players = None
                                /\ rs[1].peak_players = None
                                /\ rs[1].status \in
                                     {"no_data_for_year", "request_error",
                                      "parse_error"}
                /\ Len(SeqFilter(rows, {r \in Range(rows) : r.status = "ok"}))
                     = Sum(count)

\* a year's frame with two "ok" rows of one game and a sentinel of another
C1_Witness ==
    \E y \in Years :
      /\ out_files[y] # None
      /\ pc = "loop"
      /\ year = y + 1
      /\ \E r1, r2, r3 \in Range(out_files[y][1].rows) :
            /\ r1.status = "ok" /\ r2.status = "ok" /\ r1.month # r2.month
            /\ r1.rank = r2.rank
            /\ r3.status = "no_data_for_year" /\ r3.rank # r1.rank

(***************************************************************************)
(* C2 as stated: collect_one_year never raises.                            *)
(***************************************************************************)
C2_NeverRaises == error = ""

(***************************************************************************)
(* C2, amended: collect_one_year raises only when load_input_csv rejects   *)
(* the roster file, before any game is fetched.  Once the roster is        *)
(* loaded, every fetch failure becomes a request_error row and every       *)
(* parse failure a parse_error row of that game, and every later roster    *)
(* entry is still fetched and classified: when the year's frame is         *)
(* returned every entry has had its call.                                  *)
(***************************************************************************)
C2_OnlyRosterRaises ==
    /\ error # "" =>
          /\ error = "load_input_csv"
          /\ load_input_csv_raises(files[year][1])
          /\ CallsOf(year) = <<>>
    /\ pc = "games" =>
          \E calls \in {CallsOf(year)} :
             /\ Len(calls) = idx
             /\ \A i \in 1..idx :
                   \E rs \in {EntryRows(out_rows, games_df[i])} :
                      /\ rs # <<>>
                      /\ calls[i].appid = games_df[i].appid
                      /\ calls[i].html = None <=> rs[1].status = "request_error"
                      /\ (calls[i].html # None /\ calls[i].html[1].deep)
                            <=> rs[1].status = "parse_error"
    /\ \A y \in Years :
          (pc = "loop" /\ year = y + 1 /\ files[y] # None) =>
              Len(CallsOf(y)) = Len(load_input_csv(files[y][1]))

\* a fetch failure and a parse failure, and a later entry that got its rows
C2_Witness ==
    /\ pc = "games"
    /\ idx = 2
    /\ year = end_year
    /\ out_rows[1].status = "request_error"
    /\ out_rows[2].status = "ok"
    /\ out_files[start_year] # None
    /\ \E r \in Range(out_files[start_year][1].rows) : r.status = "parse_error"

(***************************************************************************)
(* Loader (session.get) invocations, read off the calls' traces.           *)
(***************************************************************************)
CountOf(ev, trace) == Cardinality({i \in 1..Len(trace) : trace[i] = ev})

KeyOf(c) == cache_key_for_url(build_game_url(c.appid))

\* the call asked the network and got the page
FetchedLive(c) == CountOf("get", c.trace) > 0 /\ c.html # None

\* the call was served from the cache
CacheHit(c) == CountOf("get", c.trace) = 0 /\ c.html # None

LoaderCalls(k) ==
    Sum([i \in 1..Len(call_log) |->
            IF KeyOf(call_log[i]) = k
            THEN CountOf("get", call_log[i].trace) ELSE 0])

(***************************************************************************)
(* C3 as stated: with use_cache the loader is invoked at most once per     *)
(* cache key over all calls; without it, exactly once per call.            *)
(***************************************************************************)
C3_AtMostOncePerKey ==
    IF use_cache
    THEN \A c \in Range(call_log) : LoaderCalls(KeyOf(c)) <= 1
    ELSE \A c \in Range(call_log) : CountOf("get", c.trace) = 1

(***************************************************************************)
(* C3, amended: with use_cache (and a cache directory that starts empty)   *)
(* a call invokes the loader once if no earlier fetch for its key has      *)
(* succeeded, and not at all otherwise: at most one invocation per key     *)
(* succeeds, and failed invocations, which store nothing, are repeated by  *)
(* the later calls for the key until one succeeds.  Without use_cache the  *)
(* loader is invoked exactly once per call.                                *)
(***************************************************************************)
C3_AtMostOneSuccessPerKey ==
    IF use_cache
    THEN \A j \in 1..Len(call_log) :
            CountOf("get", call_log[j].trace) =
               IF \E i \in 1..(j - 1) :
                     /\ KeyOf(call_log[i]) = KeyOf(call_log[j])
                     /\ FetchedLive(call_log[i])
               THEN 0 ELSE 1
    ELSE \A c \in Range(call_log) : CountOf("get", c.trace) = 1

\* with use_cache: a failed fetch, then a second, successful fetch for the
\* same key
C3_Witness ==
    /\ use_cache
    /\ \E i, j \in 1..Len(call_log) :
          /\ i < j
          /\ KeyOf(call_log[i]) = KeyOf(call_log[j])
          /\ call_log[i].html = None
          /\ FetchedLive(call_log[j])

(***************************************************************************)
(* C10: a call that fetched the page from the network sleeps exactly       *)
(* once, after the response has been checked and saved and as the last     *)
(* thing before it returns; a call served from the cache does not sleep.   *)
(***************************************************************************)
C10_SleepAfterFetchOnly ==
    \A c \in Range(call_log) :
       /\ FetchedLive(c) =>
             /\ CountOf("sleep", c.trace) = 1
             /\ c.trace[Len(c.trace)] = "sleep"
             /\ \E i \in 1..Len(c.trace) : c.trace[i] = "get"
       /\ CacheHit(c) => CountOf("sleep", c.trace) = 0

\* one call that fetched and slept, one later call served from the cache
C10_Witness ==
    \E i, j \in 1..Len(call_log) :
       /\ i < j
       /\ FetchedLive(call_log[i])
       /\ CountOf("sleep", call_log[i].trace) = 1
       /\ CacheHit(call_log[j])
       /\ KeyOf(call_log[i]) = KeyOf(call_log[j])

(***************************************************************************)
(* Rosters of the range.                                                   *)
(***************************************************************************)
Present(y) == files[y] # None

Valid(y) == Present(y) /\ ~load_input_csv_raises(files[y][1])

\* the years of the range that have a roster file, ascending
RECURSIVE PresentYears(_)
PresentYears(y) ==
    IF y > end_year THEN <<>>
    ELSE (IF Present(y) THEN <<y>> ELSE <<>>) \o PresentYears(y + 1)

(***************************************************************************)
(* C5: a year whose roster file is absent is skipped without failing: no   *)
(* per-year file is written for it, no error is raised at it, every year   *)
(* that has a roster file is processed, and the combined dataset returned  *)
(* is exactly the rows of the years whose roster file exists.              *)
(***************************************************************************)
C5_MissingYearSkipped ==
    /\ \A y \in Years : ~Present(y) => out_files[y] = None /\ CallsOf(y) = <<>>
    /\ (pc = "raised" /\ year \in Years) => Present(year)
    /\ pc = "done" =>
          /\ \A y \in Years : Present(y) => out_files[y] # None
          /\ ret # None
          /\ ret[1].rows =
                Concat([i \in 1..Len(PresentYears(start_year)) |->
                          out_files[PresentYears(start_year)[i]][1].rows])
          /\ \A r \in Range(ret[1].rows) : Present(r.year)

\* the scenario: first year absent, the last year's rows returned
C5_Witness ==
    /\ pc = "done"
    /\ ~Present(start_year)
    /\ Present(end_year)
    /\ ret[1].rows # <<>>
    /\ \A r \in Range(ret[1].rows) : r.year = end_year

(***************************************************************************)
(* C6 as stated: a roster file that fails validation does not abort the    *)
(* range; the years whose rosters are valid are still collected and        *)
(* written.                                                                *)
(***************************************************************************)
C6_ValidYearsStillWritten ==
    Terminated => \A y \in Years : Valid(y) => out_files[y] # None

(***************************************************************************)
(* C6, amended: a roster file that fails validation aborts the range at    *)
(* that year.  The error leaves collect_year_range, which returns nothing  *)
(* and writes no combined file; the years before it are already written,   *)
(* the years after it are not processed.  A run returns only if no roster  *)
(* file of the range fails validation.                                     *)
(***************************************************************************)
C6_InvalidRosterAborts ==
    /\ pc = "done" => \A y \in Years : Present(y) => Valid(y)
    /\ pc = "raised" =>
          /\ Present(year) /\ ~Valid(year)
          /\ ret = None
          /\ combined_file = None
          /\ \A y \in Years :
                /\ (y < year /\ Present(y)) => out_files[y] # None
                /\ y >= year => out_files[y] = None /\ CallsOf(y) = <<>>

\* the first year's roster is invalid and the valid last year is never
\* collected
C6_Witness ==
    /\ pc = "raised"
    /\ year = start_year
    /\ Valid(end_year)
    /\ out_files[end_year] = None

(***************************************************************************)
(* C8: the per-year file of a year is written, with all of the year's      *)
(* rows, before anything is fetched for a later year: whenever the run is  *)
(* at a later year (fetching, or stopped by an error), every earlier year  *)
(* that has a roster has its file, the file is the frame the run holds in  *)
(* memory for that year, and it has rows for every game fetched for it.    *)
(***************************************************************************)
C8_IncrementalWrite ==
    \A y \in Years :
       (y < year /\ Present(y)) =>
          /\ out_files[y] # None
          /\ LET k == Cardinality({z \in start_year..y : Present(z)})
             IN /\ k <= Len(all_parts)
                /\ out_files[y][1] = all_parts[k]
                /\ \A c \in Range(CallsOf(y)) :
                      EntryRows(out_files[y][1].rows, c) # <<>>

\* the run stops at the last year (its roster is rejected) after a fetch of
\* the first year: the first year's file is there with its rows
C8_Witness ==
    /\ pc = "raised"
    /\ year = end_year
    /\ out_files[start_year] # None
    /\ Len(out_files[start_year][1].rows) >= 2

(***************************************************************************)
(* C9: when a roster file lacks a required column, the error is raised     *)
(* before any get_game_page_html call (network request or cache access)    *)
(* is made for that year; the run stops at that year with the error.       *)
(***************************************************************************)
C9_ValidationBeforeNetwork ==
    \A y \in Years :
       (Present(y) /\ missing(files[y][1]) # {}) =>
          /\ \A c \in Range(call_log) : c.year # y
          /\ year <= y
          /\ (year = y /\ pc # "loop") => pc = "raised" /\ error = "load_input_csv"

\* the file without appid stops the run at the last year, after the first
\* year made requests
C9_Witness ==
    /\ pc = "raised"
    /\ year = end_year
    /\ "appid" \in missing(files[year][1])
    /\ call_log # <<>>

(***************************************************************************)
(* C7 as stated: a run that has ended has returned a dataset with the      *)
(* eight-column schema and raised no error.                                *)
(***************************************************************************)
C7_AlwaysReturnsSchema ==
    Terminated => pc = "done" /\ ret # None /\ ret[1].columns = Schema

(***************************************************************************)
(* C7, amended: every run over the range terminates, either returning a    *)
(* dataset with the eight-column schema (populated or empty) or with the   *)
(* validation error of a roster file; it raises only for such a file, and  *)
(* when no year of the range has a roster file it returns the empty        *)
(* dataset with the schema.                                                *)
(***************************************************************************)
C7_TerminatesWithSchemaOrRosterError ==
    /\ <>Terminated
    /\ [](pc = "done" =>
             /\ ret # None
             /\ ret[1].columns =
                   <<"year", "rank", "name", "appid", "month", "avg_players",
                     "peak_players", "status">>
             /\ \A r \in Range(ret[1].rows) :
                   DOMAIN r = Range(ret[1].columns))
    /\ [](pc = "raised" => year \in Years /\ Present(year) /\ ~Valid(year))
    /\ []((Terminated /\ \A y \in Years : ~Present(y)) =>
             /\ pc = "done"
             /\ ret[1].rows = <<>>)

\* no roster file in the range: the empty dataset with the schema
C7_Witness ==
    /\ pc = "done"
    /\ \A y \in Years : ~Present(y)
    /\ ret = Some([columns |-> Schema, rows |-> <<>>])

(***************************************************************************)
(* Two runs in succession: prev[1] is what the previous run left.          *)
(***************************************************************************)
HasRequestError(rows) == \E r \in Range(rows) : r.status = "request_error"

\* some per-year frame of the previous run holds a request_error row
PrevRunHadRequestError ==
    \E y \in Years :
       /\ prev[1].out_files[y] # None
       /\ HasRequestError(prev[1].out_files[y][1].rows)

(***************************************************************************)
(* C4 as stated: with use_cache, a second run with the same arguments and  *)
(* rosters leaves per-year and combined datasets identical to the first    *)
(* run's, and returns the same dataset.                                    *)
(***************************************************************************)
C4_RerunIdentical ==
    (run > 1 /\ Terminated /\ use_cache) =>
        /\ ret = prev[1].ret
        /\ out_files = prev[1].out_files
        /\ combined_file = prev[1].combined_file

(***************************************************************************)
(* C4, amended: with use_cache, a second run ends as the first did         *)
(* (returning, or raising for the same roster), writes the same years,     *)
(* and reproduces, in the same order, the rows of every roster entry       *)
(* whose page the first run obtained (no request_error row); an entry      *)
(* whose fetch failed in the first run is not cached and may get other     *)
(* rows.  When the first run has no request_error row, the per-year        *)
(* and combined datasets and the returned dataset of both runs are         *)
(* identical.                                                              *)
(***************************************************************************)
C4_RerunKeepsFetchedEntries ==
    (run > 1 /\ Terminated /\ use_cache) =>
        /\ error = prev[1].error
        /\ \A y \in Years :
              /\ out_files[y] = None <=> prev[1].out_files[y] = None
              /\ out_files[y] # None =>
                    \A e \in Range(load_input_csv(files[y][1])) :
                       LET before == EntryRows(prev[1].out_files[y][1].rows, e)
                           after  == EntryRows(out_files[y][1].rows, e)
                       IN ~HasRequestError(before) => after = before
        /\ ~PrevRunHadRequestError =>
              /\ ret = prev[1].ret
              /\ out_files = prev[1].out_files
              /\ combined_file = prev[1].combined_file

\* a second run that kept the "ok" rows of one game and turned the
\* request_error of another into "ok" rows
C4_Witness ==
    /\ run > 1
    /\ pc = "done"
    /\ use_cache
    /\ \E y \in Years :
          /\ out_files[y] # None
          /\ prev[1].out_files[y] # None
          /\ \E e1, e2 \in Range(load_input_csv(files[y][1])) :
                /\ HasRequestError(EntryRows(prev[1].out_files[y][1].rows, e1))
                /\ EntryRows(out_files[y][1].rows, e1)[1].status = "ok"
                /\ EntryRows(out_files[y][1].rows, e2)[1].status = "ok"
                /\ EntryRows(out_files[y][1].rows, e2)
                      = EntryRows(prev[1].out_files[y][1].rows, e2)

(***************************************************************************)
(* Order of the rows of a frame.                                           *)
(***************************************************************************)
\* row a may stand right before row b: rank ascending, then month
\* ascending, the absent month last
InOrder(a, b) ==
    \/ a.rank < b.rank
    \/ /\ a.rank = b.rank
       /\ \/ b.month = None
          \/ /\ a.month # None
             /\ (a.month = b.month \/ LexLess(a.month, b.month))

Ordered(rows) == \A i \in 1..(Len(rows) - 1) : InOrder(rows[i], rows[i + 1])

\* the number of places of rows that hold r
Occurrences(rows, r) == Cardinality({i \in 1..Len(rows) : rows[i] = r})

\* the same rows, each as many times, in some order
SameRows(a, b) ==
    /\ Len(a) = Len(b)
    /\ \A r \in Range(a) \cup Range(b) : Occurrences(a, r) = Occurrences(b, r)

(***************************************************************************)
(* C11: the frame collect_one_year returns holds the rows collected for    *)
(* the year, each once, ordered by rank ascending, then by month ascending *)
(* with the rows without a month last; the dataset collect_year_range      *)
(* returns (and the combined file, when written) is the per-year frames    *)
(* one after the other in ascending year order, each in its own order,     *)
(* with no row added, removed or deduplicated.                             *)
(***************************************************************************)
C11_OrderedAndConcatenated ==
    /\ \A y \in Years :
          (out_files[y] # None /\ pc = "loop" /\ year = y + 1) =>
             \E rows \in {out_files[y][1].rows} :
                /\ Ordered(rows)
                /\ SameRows(rows, out_rows)
                /\ all_parts[Len(all_parts)].rows = rows
    /\ pc = "done" =>
          \E rows \in {ret[1].rows} :
          \E ys \in {PresentYears(start_year)} :
             /\ rows = Concat([i \in 1..Len(ys) |-> out_files[ys[i]][1].rows])
             /\ Len(rows) = Sum([i \in 1..Len(ys) |->
                                   Len(out_files[ys[i]][1].rows)])
             /\ \A i \in 1..(Len(rows) - 1) :
                   \/ rows[i].year < rows[i + 1].year
                   \/ /\ rows[i].year = rows[i + 1].year
                      /\ InOrder(rows[i], rows[i + 1])
             /\ \A y \in Years :
                   Present(y) =>
                      SeqFilter(rows, {r \in Range(rows) : r.year = y})
                         = out_files[y][1].rows
             /\ write_combined /\ ys # <<>> => combined_file = ret

\* a returned dataset of two years in which the sort moved rows: in one
\* year the sentinel row of the first game of a rank stands behind the
\* month rows of the second game of that rank, and in the other the month
\* rows of two games of a rank alternate
C11_Witness ==
    /\ pc = "done"
    /\ \E rows \in {ret[1].rows} :
          /\ \E i, j \in 1..Len(rows) :
                /\ i < j
                /\ rows[i].year = end_year /\ rows[j].year = end_year
                /\ rows[i].rank = rows[j].rank
                /\ rows[i].appid > rows[j].appid
                /\ rows[i].month # None /\ rows[j].month = None
          /\ \E i \in 1..(Len(rows) - 2) :
                /\ rows[i].year = start_year /\ rows[i + 2].year = start_year
                /\ rows[i].appid = rows[i + 2].appid
                /\ rows[i].appid # rows[i + 1].appid
                /\ rows[i + 1].month # None

(***************************************************************************)
(* C12: for a page that BeautifulSoup turns into table rows,               *)
(* parse_year_data_from_html returns exactly one record for each row that  *)
(* has at least 5 cells, whose month cell is not "Last 30 Days" in any     *)
(* case, whose month cell reads "<month name> <4-digit year>" and whose    *)
(* year is the target year: the record holds that row's month and the      *)
(* numbers of its second and fifth cells.  Every other row is skipped, the *)
(* records are in ascending order of the month, and a page without a row   *)
(* of the target year gives the empty sequence, which collect_one_year     *)
(* turns into one no_data_for_year row.  Stated of every page the current  *)
(* year's loop has parsed and of the rows the loop made of it.             *)
(***************************************************************************)
C12_OneRecordPerQualifyingRow ==
    pc = "games" =>
       \E calls \in {CallsOf(year)} :
          \A i \in 1..idx :
             FetchedAndParsed(calls[i]) =>
                \E html \in {calls[i].html[1]} :
                \E recs \in {parse_year_data_from_html(html, year)} :
                \E kept \in {{k \in 1..Len(html.rows) :
                                 Qualifies(html.rows[k], year)}} :
                \E rs \in {EntryRows(out_rows, games_df[i])} :
                   /\ Len(recs) = Cardinality(kept)
                   /\ \E f \in [1..Len(recs) -> kept] :
                         /\ \A a, b \in 1..Len(recs) : a # b => f[a] # f[b]
                         /\ \A a \in 1..Len(recs) :
                               \E tds \in {html.rows[f[a]]} :
                                  /\ recs[a].month = to_datetime(tds[1])[1]
                                  /\ recs[a].month[1] = year
                                  /\ recs[a].avg_players
                                        = clean_num(Some(tds[2]))
                                  /\ recs[a].peak_players
                                        = clean_num(Some(tds[5]))
                   /\ \A a \in 1..(Len(recs) - 1) :
                         \/ recs[a].month = recs[a + 1].month
                         \/ LexLess(recs[a].month, recs[a + 1].month)
                   /\ IF kept = {}
                      THEN /\ recs = <<>>
                           /\ Len(rs) = 1
                           /\ rs[1].status = "no_data_for_year"
                      ELSE /\ Len(rs) = Len(recs)
                           /\ \A a \in 1..Len(recs) :
                                 /\ rs[a].status = "ok"
                                 /\ rs[a].month = recs[a].month
                                 /\ rs[a].avg_players = recs[a].avg_players
                                 /\ rs[a].peak_players = recs[a].peak_players

\* the loop has parsed a page of eight rows, two of them of the target
\* year and out of order, into the records of January and March, and a
\* page without a row of the year into nothing
C12_Witness ==
    /\ pc = "games"
    /\ idx = 2
    /\ year = start_year
    /\ \E calls \in {CallsOf(year)} :
          /\ calls[1].html = Some(PageData)
          /\ calls[2].html = Some(PageNoData)
          /\ parse_year_data_from_html(PageNoData, year) = <<>>
          /\ \E recs \in {parse_year_data_from_html(PageData, year)} :
                /\ Len(PageData.rows) = 8
                /\ Len(recs) = 2
                /\ recs[1].month = <<start_year, 1>>
                /\ recs[1].avg_players = None
                /\ recs[1].peak_players = Some(900)
                /\ recs[2].month = <<start_year, 3>>
                /\ recs[2].avg_players = Some(1200)
                /\ PageData.rows[2][1] = <<"March", YearWord(start_year)>>
          /\ out_rows[1].status = "ok"
          /\ out_rows[3].status = "no_data_for_year"

(***************************************************************************)
(* The cache directory against the calls made so far.                      *)
(***************************************************************************)
\* the places in call_log of the calls for key k that fetched the page
FetchesOf(k) ==
    {i \in 1..Len(call_log) :
        KeyOf(call_log[i]) = k /\ FetchedLive(call_log[i])}

\* the greatest element of a non-empty set of numbers
Max(S) == CHOOSE m \in S : \A n \in S : n <= m

\* call j is the next call after call i for the key of call i
NextCallForKey(i, j) ==
    /\ i < j
    /\ KeyOf(call_log[i]) = KeyOf(call_log[j])
    /\ \A m \in (i + 1)..(j - 1) : KeyOf(call_log[m]) # KeyOf(call_log[i])

(***************************************************************************)
(* C13: with use_cache=False every get_game_page_html call asks the        *)
(* network, once and as its first step, and never reads the cache, even    *)
(* when a file for its key exists; a call that returns has written what    *)
(* it fetched to the file of its key, over any previous content: the file  *)
(* of a key holds the page of the latest call for the key that returned.   *)
(***************************************************************************)
C13_NoCacheAlwaysFetchesAndOverwrites ==
    ~use_cache =>
       /\ \A c \in Range(call_log) :
             /\ CountOf("get", c.trace) = 1
             /\ c.trace[1] = "get"
             /\ CountOf("read_text", c.trace) = 0
             /\ c.html # None => CountOf("write_text", c.trace) = 1
       /\ \A c \in Range(call_log) :
             \E k \in {KeyOf(c)} :
             \E fs \in {FetchesOf(k)} :
                fs # {} =>
                   /\ k \in DOMAIN cache
                   /\ cache[k] = call_log[Max(fs)].html[1]

\* use_cache=False: a second call for a key whose file exists fetched
\* another page, and the file now holds that page
C13_Witness ==
    /\ ~use_cache
    /\ \E i, j \in 1..Len(call_log) :
          /\ NextCallForKey(i, j)
          /\ FetchedLive(call_log[i])
          /\ FetchedLive(call_log[j])
          /\ call_log[i].html # call_log[j].html
          /\ j = Len(call_log)
          /\ cache[KeyOf(call_log[j])] = call_log[j].html[1]

(***************************************************************************)
(* C14: a get_game_page_html call that fails (the request raises, or the   *)
(* status is not a success) leaves the cache directory as it was: no file  *)
(* is created or modified.  So every cache file holds the body of a        *)
(* response that was fetched with success, and after a failed call the     *)
(* next call for the same game asks the network again.                     *)
(***************************************************************************)
C14_FailedFetchLeavesCache ==
    /\ [][(/\ Len(call_log') = Len(call_log) + 1
           /\ call_log'[Len(call_log')].html = None) => cache' = cache]_vars
    /\ [](/\ \A k \in DOMAIN cache :
                \E fs \in {FetchesOf(k)} :
                   fs # {} /\ cache[k] = call_log[Max(fs)].html[1]
          /\ \A i, j \in 1..Len(call_log) :
                (NextCallForKey(i, j) /\ call_log[i].html = None) =>
                   /\ CountOf("get", call_log[j].trace) = 1
                   /\ CountOf("read_text", call_log[j].trace) = 0)

\* a call for a game failed, once on a network error and once on the
\* status; the next call for the game asked the network again; the cache
\* holds the file of another game and none for this one
C14_Witness ==
    /\ \E i, j \in 1..Len(call_log) :
          /\ NextCallForKey(i, j)
          /\ call_log[i].trace = <<"get", "raise">>
          /\ call_log[j].trace = <<"get", "raise_for_status", "raise">>
          /\ KeyOf(call_log[i]) \notin DOMAIN cache
    /\ cache # <<>>

=============================================================================
